---- MODULE Spec2Model ----
(***************************************************************************)
(* Model of the rlox lexical scanner, interpret/src/scanner.rs.            *)
(*                                                                         *)
(* A Rust char is a one-character TLA+ string; a Rust String is a sequence *)
(* of chars.  Characters outside ASCII cannot be written in a TLA+ string, *)
(* so the two non-ASCII characters of the model are written by code point: *)
(* "U+0663" is ARABIC-INDIC DIGIT THREE and "U+00BD" is VULGAR FRACTION    *)
(* ONE HALF; char::is_numeric is true of both.                             *)
(*                                                                         *)
(* The cursor `char_iter_peekable` over `self.source` is the number `pos`  *)
(* of characters already taken from it: next() yields source[pos+1] and    *)
(* peek() looks at source[pos+1].                                          *)
(*                                                                         *)
(* One action is one iteration of the `while let` loop of scan_tokens, one *)
(* action per arm of its `match`, inner loops included.                    *)
(***************************************************************************)
EXTENDS Integers, Sequences, FiniteSets, TLC

VARIABLES
    source,     \* Scanner.source
    pc,         \* "ready" | "loop" | "done" | "panicked"
    pos,        \* characters taken from char_iter_peekable
    line,       \* local `line` of scan_tokens
    tokens,     \* local `tokens` of scan_tokens
    character,  \* loop variable `character` (NoChar before the first one)
    results,    \* the vectors returned by the calls made so far, in order
    built,      \* history: the text Scanner::new was given
    at,         \* history: index in source of `character` (0 before)
    starts      \* history: starts[i] is the index of the first character
                \* of tokens[i]

vars ==
    <<source, pc, pos, line, tokens, character, results, built, at, starts>>

----------------------------------------------------------------------------
(* Bounds of the model. *)

\* Every source text of at most MaxLen characters of Alphabet is scanned, and
\* every one of at most MaxCoreLen characters of Core.
MaxLen == 2
MaxCoreLen == 4

\* scan_tokens is called at most MaxCalls times on one Scanner.
MaxCalls == 2

----------------------------------------------------------------------------
(* Character classes of the match in scan_tokens. *)

NoChar == "none"

SingleChars == {"(", ")", "{", "}", ",", ".", "-", "+", ";", "*"}
EqualityChars == {"!", "=", "<", ">"}
Blank == {" ", "\r", "\t"}
AsciiDigits == {"0", "1", "2", "3", "4", "5", "6", "7", "8", "9"}
NonAsciiNumeric == {"U+0663", "U+00BD"}

Handled ==
    SingleChars \cup EqualityChars \cup Blank \cup AsciiDigits
        \cup {"/", "\"", "\n"}

is_numeric(c) == c \in AsciiDigits \cup NonAsciiNumeric

----------------------------------------------------------------------------
(* Tokens. *)

Token(kind, l) == [kind |-> kind, line |-> l]
StringToken(literal, l) == [kind |-> "String", literal |-> literal, line |-> l]
NumberToken(literal, l) == [kind |-> "Number", literal |-> literal, line |-> l]

SingleKind(c) ==
    CASE c = "(" -> "LeftParen"
      [] c = ")" -> "RightParen"
      [] c = "{" -> "RightBrace"
      [] c = "}" -> "LeftBrace"
      [] c = "," -> "Comma"
      [] c = "." -> "Dot"
      [] c = "-" -> "Minus"
      [] c = "+" -> "Plus"
      [] c = ";" -> "Semicolon"
      [] c = "*" -> "Asterisk"

\* EqualityKind with the kinds of '<' and '>' exchanged, as the braces are in
\* SingleKind: not the code, but what C5 has to tell from it.
EqualityKindExchanged(c, matched) ==
    CASE c = "!" -> IF matched THEN "BangEqual" ELSE "Bang"
      [] c = "=" -> IF matched THEN "EqualEqual" ELSE "Equal"
      [] c = "<" -> IF matched THEN "GreaterEqual" ELSE "Greater"
      [] c = ">" -> IF matched THEN "LessEqual" ELSE "Less"

EqualityKind(c, matched) ==
    CASE c = "!" -> IF matched THEN "BangEqual" ELSE "Bang"
      [] c = "=" -> IF matched THEN "EqualEqual" ELSE "Equal"
      [] c = "<" -> IF matched THEN "LessEqual" ELSE "Less"
      [] c = ">" -> IF matched THEN "GreaterEqual" ELSE "Greater"

----------------------------------------------------------------------------
(* Formatting and parsing. *)

DigitChar(d) ==
    CASE d = 0 -> "0" [] d = 1 -> "1" [] d = 2 -> "2" [] d = 3 -> "3"
      [] d = 4 -> "4" [] d = 5 -> "5" [] d = 6 -> "6" [] d = 7 -> "7"
      [] d = 8 -> "8" [] d = 9 -> "9"

DigitValue(c) ==
    CASE c = "0" -> 0 [] c = "1" -> 1 [] c = "2" -> 2 [] c = "3" -> 3
      [] c = "4" -> 4 [] c = "5" -> 5 [] c = "6" -> 6 [] c = "7" -> 7
      [] c = "8" -> 8 [] c = "9" -> 9

\* Display of a usize: its decimal digits, no padding.
RECURSIVE FormatUsize(_)
FormatUsize(n) ==
    IF n < 10 THEN <<DigitChar(n)>>
    ELSE FormatUsize(n \div 10) \o <<DigitChar(n % 10)>>

UnexpectedPrefix ==
    <<"U", "n", "e", "x", "p", "e", "c", "t", "e", "d", " ",
      "c", "h", "a", "r", "a", "c", "t", "e", "r", " ">>

LineInfix == <<" ", "l", "i", "n", "e", " ">>

\* format!("Unexpected character {} line {}", character, line)
UnexpectedMessage(c, l) ==
    UnexpectedPrefix \o <<c>> \o LineInfix \o FormatUsize(l)

\* InvalidToken with lines counted from 1: not the code, but what C9 has to
\* tell from it.
InvalidTokenFromOne(c, l) ==
    [kind |-> "Invalid", message |-> UnexpectedMessage(c, l + 1),
     line |-> l + 1]

InvalidToken(c, l) ==
    [kind |-> "Invalid", message |-> UnexpectedMessage(c, l), line |-> l]

\* str::parse::<f64> on a string of is_numeric characters: Ok exactly when
\* the string is a non-empty run of ASCII digits.
ParseOk(literal) ==
    /\ Len(literal) > 0
    /\ \A i \in 1..Len(literal) : literal[i] \in AsciiDigits

\* The value of a run of ASCII digits (exact in an f64 below 2^53).
RECURSIVE ParseValue(_)
ParseValue(literal) ==
    IF Len(literal) = 0 THEN 0
    ELSE 10 * ParseValue(SubSeq(literal, 1, Len(literal) - 1))
            + DigitValue(literal[Len(literal)])

----------------------------------------------------------------------------
(* The cursor. *)

\* Peekable::next_if_eq(&c): the position after it.
next_if_eq(s, p, c) ==
    IF p < Len(s) /\ s[p + 1] = c THEN p + 1 ELSE p

\* SkipComment taking the "\n" too: not the code, but what C6 has to tell
\* from it.
RECURSIVE SkipCommentAndNewline(_, _)
SkipCommentAndNewline(s, p) ==
    IF p < Len(s)
    THEN IF s[p + 1] = "\n" THEN p + 1 ELSE SkipCommentAndNewline(s, p + 1)
    ELSE p

\* while next_if(|&c| c != '\n').is_some() {}
RECURSIVE SkipComment(_, _)
SkipComment(s, p) ==
    IF p < Len(s) /\ s[p + 1] # "\n" THEN SkipComment(s, p + 1) ELSE p

\* StringBody with a backslash escaping the character after it: not the code,
\* but what C8 has to tell from it.
RECURSIVE StringBodyEscaping(_, _)
StringBodyEscaping(s, p) ==
    IF p < Len(s) /\ s[p + 1] # "\""
    THEN IF s[p + 1] = "\\" /\ p + 1 < Len(s)
         THEN StringBodyEscaping(s, p + 2)
         ELSE StringBodyEscaping(s, p + 1)
    ELSE p

\* StringBody ending the literal at the end of the line as well: not the
\* code, but what C16 has to tell from it.
RECURSIVE StringBodyOneLine(_, _)
StringBodyOneLine(s, p) ==
    IF p < Len(s) /\ s[p + 1] # "\"" /\ s[p + 1] # "\n"
    THEN StringBodyOneLine(s, p + 1)
    ELSE p

\* The peek loop of the string arm: the position of the last character
\* pushed to the literal.
RECURSIVE StringBody(_, _)
StringBody(s, p) ==
    IF p < Len(s) /\ s[p + 1] # "\"" THEN StringBody(s, p + 1) ELSE p

\* parse_number_chunk: the position after the run of is_numeric characters.
RECURSIVE parse_number_chunk(_, _)
parse_number_chunk(s, p) ==
    IF p < Len(s) /\ is_numeric(s[p + 1]) THEN parse_number_chunk(s, p + 1)
    ELSE p

\* number_parse taking the character after the run with next() where the
\* code peeks: not the code, but what C12 has to tell from it.
number_parse_taking(s, p, l) ==
    LET q == parse_number_chunk(s, p)
        literal == SubSeq(s, p + 1, q)
    IN  IF q < Len(s) /\ s[q + 1] = "."
        THEN [pos |-> q + 1, panic |-> FALSE, tokens |-> <<>>]
        ELSE IF ParseOk(literal)
             THEN [pos |-> IF q < Len(s) THEN q + 1 ELSE q, panic |-> FALSE,
                   tokens |-> <<NumberToken(ParseValue(literal), l)>>]
             ELSE [pos |-> q, panic |-> TRUE, tokens |-> <<>>]

\* Scanner::number_parse, called with the cursor after the first digit.
number_parse(s, p, l) ==
    LET q == parse_number_chunk(s, p)
        literal == SubSeq(s, p + 1, q)
    IN  IF q < Len(s) /\ s[q + 1] = "."
        THEN [pos |-> q, panic |-> FALSE, tokens |-> <<>>]
        ELSE IF ParseOk(literal)
             THEN [pos |-> q, panic |-> FALSE,
                   tokens |-> <<NumberToken(ParseValue(literal), l)>>]
             ELSE [pos |-> q, panic |-> TRUE, tokens |-> <<>>]

----------------------------------------------------------------------------
(* Inputs. *)

\* One character or more of every arm of the match; "@", "a" and "\\" fall
\* to the last arm, and so does "U+0663", which is_numeric accepts.
Alphabet ==
    SingleChars \cup EqualityChars \cup Blank
        \cup {"/", "\"", "\n", "0", "4", "@", "a", "\\", "U+0663"}

Core == {"(", "=", "/", "\"", "\n", "4", ".", "@", " "}

SeqsUpTo(S, n) == UNION {[1..k -> S] : k \in 0..n}

IgnoredComment ==
    <<"/", "/", " ", "I", "g", "n", "o", "r", "e", "d", " ",
      "c", "o", "m", "m", "e", "n", "t">>

\* The inputs of the tests of scanner.rs.
StringAndComment == <<"\"", "a", "s", "d", "\"", " ">> \o IgnoredComment
NewlineAfterComment ==
    IgnoredComment \o <<"\n", " ", "\"", "a", "s", "d", "\"">>
NumberAndComment == <<"4", "2", "0", ".", "6", "9", " ">> \o IgnoredComment

TestSources == {StringAndComment, NewlineAfterComment, NumberAndComment}

\* Further texts: a backslash before the closing quote of a string, braces
\* on two lines, and operators side by side.
OtherSources ==
    { <<"\"", "\\", "\"", "a">>,
      <<"{", "\n", "}">>,
      <<"!", "=", "<", "=">>,
      <<">", "=", ">", "a">> }

Sources ==
    OtherSources \cup TestSources
        \cup SeqsUpTo(Core, MaxCoreLen) \cup SeqsUpTo(Alphabet, MaxLen)

----------------------------------------------------------------------------
(* Scanner::new *)

Init ==
    /\ source \in Sources
    /\ built = source
    /\ pc = "ready"
    /\ pos = 0
    /\ line = 0
    /\ tokens = <<>>
    /\ character = NoChar
    /\ results = <<>>
    /\ at = 0
    /\ starts = <<>>

----------------------------------------------------------------------------
(* scan_tokens *)

\* `line` kept from the call before, as a field of the Scanner would be: not
\* the code, but what C10 has to tell from it.
LineCarriedOver == line

\* The locals as scan_tokens declares them.
LineAtCall == 0
TokensAtCall == <<>>
CursorAtCall == 0

\* Entry of scan_tokens(&self), up to the loop.
Call ==
    /\ pc \in {"ready", "done"}
    /\ Len(results) < MaxCalls
    /\ pc' = "loop"
    /\ tokens' = TokensAtCall
    /\ line' = LineAtCall
    /\ pos' = CursorAtCall
    /\ character' = NoChar
    /\ at' = 0
    /\ starts' = <<>>
    /\ UNCHANGED <<source, results, built>>

\* `while let Some(character) = char_iter_peekable.next()` yields c.
Takes(C) ==
    /\ pc = "loop"
    /\ pos < Len(source)
    /\ source[pos + 1] \in C
    /\ character' = source[pos + 1]
    /\ at' = pos + 1

\* Push putting the token at the front, as insert(0, token) would: not the
\* code, but what C13 has to tell from it.
PushFront(token) ==
    /\ tokens' = <<token>> \o tokens
    /\ starts' = <<pos + 1>> \o starts

\* `if let Some(token) = token { tokens.push(token) }` with Some(token).
Push(token) ==
    /\ tokens' = Append(tokens, token)
    /\ starts' = Append(starts, pos + 1)

NoPush == UNCHANGED <<tokens, starts>>

SingleChar ==
    /\ Takes(SingleChars)
    /\ pos' = pos + 1
    /\ Push(Token(SingleKind(source[pos + 1]), line))
    /\ UNCHANGED <<source, pc, line, results, built>>

\* SlashOrComment pushing a Slash for the first '/' of a comment too: not the
\* code, but what C18 has to tell from it.
SlashThenComment ==
    /\ Takes({"/"})
    /\ LET q == next_if_eq(source, pos + 1, "/")
       IN  pos' = IF q # pos + 1 THEN SkipComment(source, q) ELSE q
    /\ Push(Token("Slash", line))
    /\ UNCHANGED <<source, pc, line, results, built>>

SlashOrComment ==
    /\ Takes({"/"})
    /\ LET q == next_if_eq(source, pos + 1, "/")
       IN  IF q # pos + 1
           THEN /\ pos' = SkipComment(source, q)
                /\ NoPush
           ELSE /\ pos' = q
                /\ Push(Token("Slash", line))
    /\ UNCHANGED <<source, pc, line, results, built>>

Equality ==
    /\ Takes(EqualityChars)
    /\ LET q == next_if_eq(source, pos + 1, "=")
       IN  /\ pos' = q
           /\ Push(Token(EqualityKind(source[pos + 1], q # pos + 1), line))
    /\ UNCHANGED <<source, pc, line, results, built>>

StringLiteral ==
    /\ Takes({"\""})
    /\ LET q == StringBody(source, pos + 1)
       IN  /\ pos' = next_if_eq(source, q, "\"")
           /\ Push(StringToken(SubSeq(source, pos + 2, q), line))
    /\ UNCHANGED <<source, pc, line, results, built>>

\* The tokens number_parse returns are dropped: the arm evaluates to None.
NumericLiteral ==
    /\ Takes(AsciiDigits)
    /\ LET r == number_parse(source, pos + 1, line)
       IN  /\ pos' = r.pos
           /\ pc' = IF r.panic THEN "panicked" ELSE "loop"
    /\ NoPush
    /\ UNCHANGED <<source, line, results, built>>

Whitespace ==
    /\ Takes(Blank)
    /\ pos' = pos + 1
    /\ NoPush
    /\ UNCHANGED <<source, pc, line, results, built>>

\* Newline counting two lines: not the code, but what C17 has to tell from
\* it.
NewlineTwice ==
    /\ Takes({"\n"})
    /\ pos' = pos + 1
    /\ line' = line + 2
    /\ NoPush
    /\ UNCHANGED <<source, pc, results, built>>

Newline ==
    /\ Takes({"\n"})
    /\ pos' = pos + 1
    /\ line' = line + 1
    /\ NoPush
    /\ UNCHANGED <<source, pc, results, built>>

Unexpected ==
    /\ pc = "loop"
    /\ pos < Len(source)
    /\ source[pos + 1] \notin Handled
    /\ character' = source[pos + 1]
    /\ at' = pos + 1
    /\ pos' = pos + 1
    /\ Push(InvalidToken(source[pos + 1], line))
    /\ UNCHANGED <<source, pc, line, results, built>>

\* Return with an Eof token pushed at the end of the text: not the code, but
\* what C15 has to tell from it.
ReturnWithEof ==
    /\ pc = "loop"
    /\ pos = Len(source)
    /\ pc' = "done"
    /\ results' = Append(results, Append(tokens, Token("Eof", line)))
    /\ UNCHANGED <<source, pos, line, tokens, character, built, at, starts>>

\* next() is None: the loop ends and `tokens` is returned.
Return ==
    /\ pc = "loop"
    /\ pos = Len(source)
    /\ pc' = "done"
    /\ results' = Append(results, tokens)
    /\ UNCHANGED <<source, pos, line, tokens, character, built, at, starts>>

Next ==
    \/ Call
    \/ SingleChar
    \/ SlashOrComment
    \/ Equality
    \/ StringLiteral
    \/ NumericLiteral
    \/ Whitespace
    \/ Newline
    \/ Unexpected
    \/ Return

Spec == Init /\ [][Next]_vars

----------------------------------------------------------------------------
(* Vocabulary of the properties. *)

\* The tokens pushed by the iteration that took source[i].
TokensAt(i) == {k \in 1..Len(starts) : starts[k] = i}

\* The iteration that took `character` has run (the state is the one it left,
\* or the one Return left after it).
Took(C) == at > 0 /\ character \in C

\* That iteration pushed exactly the token t, and it is the newest one.
PushedOnly(t) ==
    /\ Cardinality(TokensAt(at)) = 1
    /\ Len(tokens) > 0
    /\ starts[Len(tokens)] = at
    /\ tokens[Len(tokens)] = t

\* That iteration pushed nothing.
PushedNone == TokensAt(at) = {}

Kinds(ts) == [k \in 1..Len(ts) |-> ts[k].kind]

\* The number of "\n" among the first n characters of s.
NewlinesBefore(s, n) == Cardinality({j \in 1..n : j <= Len(s) /\ s[j] = "\n"})

----------------------------------------------------------------------------
(* C1 *)

\* C1: for every input text scan_tokens runs to completion and returns a
\* token sequence: it never panics, and lexical problems are only reported
\* as Invalid tokens of the returned sequence.
C1_NeverPanics == pc # "panicked"

----------------------------------------------------------------------------
(* C2 *)

\* C2: scanning `420.69 // Ignored comment` returns exactly one token, a
\* Number whose value is 420.69 (a hundredth of 42069).
C2_NumberAndComment ==
    (source = NumberAndComment /\ pc = "done") =>
        /\ Len(tokens) = 1
        /\ tokens[1].kind = "Number"
        /\ tokens[1].literal * 100 = 42069

----------------------------------------------------------------------------
(* C3 *)

\* The last index of the maximal run of decimal digits that starts at i.
DigitRunEnd(s, i) ==
    CHOOSE e \in i..Len(s) :
        /\ \A j \in i..e : s[j] \in AsciiDigits
        /\ e = Len(s) \/ s[e + 1] \notin AsciiDigits

\* C3: when scan_tokens takes a digit, the cursor moves past the maximal run
\* of decimal digits that starts at it, and unless a '.' follows the run,
\* exactly one token is pushed: a Number whose value is that of the whole
\* run, first digit included, on the current line.  (A scan that aborts is
\* the matter of C1: this is about the scans that go on.)
C3_DigitRunIsNumber ==
    (Took(AsciiDigits) /\ pc # "panicked") =>
        LET e == DigitRunEnd(source, at)
        IN  /\ pos = e
            /\ (e = Len(source) \/ source[e + 1] # ".") =>
                 PushedOnly(NumberToken(ParseValue(SubSeq(source, at, e)),
                                        line))

----------------------------------------------------------------------------
(* C4 *)

\* The token kind C4 names for each single character.
C4_Kind(c) ==
    CASE c = "(" -> "LeftParen"
      [] c = ")" -> "RightParen"
      [] c = "{" -> "LeftBrace"
      [] c = "}" -> "RightBrace"
      [] c = "," -> "Comma"
      [] c = "." -> "Dot"
      [] c = "-" -> "Minus"
      [] c = "+" -> "Plus"
      [] c = ";" -> "Semicolon"
      [] c = "*" -> "Asterisk"

\* C4: each of ( ) { } , . - + ; * yields exactly one token, of the kind
\* named for it and stamped with the line counter's value when the character
\* is taken; the one-character input returns exactly that token on line 0.
C4_SingleCharKinds ==
    /\ Took(SingleChars) =>
         /\ pos = at
         /\ PushedOnly(Token(C4_Kind(character), line))
    /\ (Len(source) = 1 /\ source[1] \in SingleChars /\ pc = "done") =>
         results[Len(results)] = <<Token(C4_Kind(source[1]), 0)>>

----------------------------------------------------------------------------
(* C5 *)

\* The token kinds C5 names.
C5_OneChar(c) ==
    CASE c = "!" -> "Bang" [] c = "=" -> "Equal"
      [] c = "<" -> "Less" [] c = ">" -> "Greater"

C5_TwoChar(c) ==
    CASE c = "!" -> "BangEqual" [] c = "=" -> "EqualEqual"
      [] c = "<" -> "LessEqual" [] c = ">" -> "GreaterEqual"

\* C5: when one of ! = < > is taken and the next character is '=', both are
\* consumed and exactly one two-character token is pushed; otherwise exactly
\* one one-character token is pushed and the next character stays in the
\* cursor, to be taken by the next iteration: `!(` returns Bang, LeftParen
\* and `===` returns EqualEqual, Equal.
C5_EqualityLookahead ==
    /\ Took(EqualityChars) =>
         IF at < Len(source) /\ source[at + 1] = "="
         THEN /\ pos = at + 1
              /\ PushedOnly(Token(C5_TwoChar(character), line))
         ELSE /\ pos = at
              /\ PushedOnly(Token(C5_OneChar(character), line))
    /\ (source = <<"!", "(">> /\ pc = "done") =>
         Kinds(tokens) = <<"Bang", "LeftParen">>
    /\ (source = <<"=", "=", "=">> /\ pc = "done") =>
         Kinds(tokens) = <<"EqualEqual", "Equal">>

\* `<=>a` has been scanned up to the second operator: LessEqual, then
\* Greater with the `a` left in the cursor.
C5_Witness ==
    /\ source = <<">", "=", ">", "a">>
    /\ Took({">"})
    /\ at = 3
    /\ pos = 3
    /\ Kinds(tokens) = <<"GreaterEqual", "Greater">>

----------------------------------------------------------------------------
(* C6 *)

\* C6: when '/' is taken and the next character is '/', every character up
\* to but excluding the next "\n" (or up to the end of the text) is consumed
\* and no token is pushed; when the next character is not '/', exactly one
\* Slash token is pushed and the next character stays in the cursor.
\* `"asd" // Ignored comment` returns exactly the String token asd.
C6_SlashOrComment ==
    /\ Took({"/"}) =>
         IF at < Len(source) /\ source[at + 1] = "/"
         THEN /\ PushedNone
              /\ pos \in (at + 1)..Len(source)
              /\ \A j \in (at + 2)..pos : source[j] # "\n"
              /\ pos = Len(source) \/ source[pos + 1] = "\n"
         ELSE /\ pos = at
              /\ PushedOnly(Token("Slash", line))
    /\ (source = StringAndComment /\ pc = "done") =>
         tokens = <<StringToken(<<"a", "s", "d">>, 0)>>

\* A comment with a body has been skipped and the cursor stands before the
\* "\n" that ends it.
C6_Witness ==
    /\ Took({"/"})
    /\ pos > at + 1
    /\ pos < Len(source)
    /\ source[pos + 1] = "\n"
    /\ PushedNone

----------------------------------------------------------------------------
(* C7 *)

\* C7: the line counter is the number of "\n" consumed so far, wherever they
\* stand, and every token's line is the number of "\n" before its first
\* character.
C7_LineCountsNewlines ==
    /\ line = NewlinesBefore(source, pos)
    /\ \A k \in 1..Len(tokens) :
         tokens[k].line = NewlinesBefore(source, starts[k] - 1)

----------------------------------------------------------------------------
(* C8 *)

\* The indices after i where s holds a '"'.
QuotesAfter(s, i) == {j \in (i + 1)..Len(s) : s[j] = "\""}

\* C8: when '"' is taken, exactly one token is pushed, a String on the
\* current line whose literal is the characters between that quote and the
\* next '"', as they stand; the closing quote is consumed.  When there is no
\* closing quote the literal is the rest of the text, and the token is a
\* String all the same.
C8_StringLiteral ==
    Took({"\""}) =>
        IF QuotesAfter(source, at) # {}
        THEN LET q == CHOOSE j \in QuotesAfter(source, at) :
                          \A i \in QuotesAfter(source, at) : j <= i
             IN  /\ pos = q
                 /\ PushedOnly(StringToken(SubSeq(source, at + 1, q - 1),
                                           line))
        ELSE /\ pos = Len(source)
             /\ PushedOnly(StringToken(SubSeq(source, at + 1, Len(source)),
                                       line))

\* `"\"a` has been scanned: the backslash is the whole literal, the quote
\* after it closed the string and the `a` was scanned on its own.
C8_Witness ==
    /\ source = <<"\"", "\\", "\"", "a">>
    /\ pc = "done"
    /\ Len(tokens) = 2
    /\ tokens[1] = StringToken(<<"\\">>, 0)
    /\ starts = <<1, 4>>

----------------------------------------------------------------------------
(* C9 *)

\* The characters C9 excepts.
C9_Recognized ==
    {"(", ")", "{", "}", ",", ".", "-", "+", ";", "*", "/",
     "!", "=", "<", ">", "\"", " ", "\r", "\t", "\n",
     "0", "1", "2", "3", "4", "5", "6", "7", "8", "9"}

\* s ends with t.
EndsWith(s, t) ==
    Len(t) <= Len(s) /\ SubSeq(s, Len(s) - Len(t) + 1, Len(s)) = t

\* C9: when scan_tokens takes any other character, exactly that character is
\* consumed and exactly one token is pushed, an Invalid token on the current
\* line whose message holds the character and ends with the line; a text of
\* n such characters returns n Invalid tokens.
C9_UnexpectedCharacter ==
    /\ (at > 0 /\ character \notin C9_Recognized) =>
         /\ pos = at
         /\ Cardinality(TokensAt(at)) = 1
         /\ starts[Len(tokens)] = at
         /\ LET t == tokens[Len(tokens)]
            IN  /\ t.kind = "Invalid"
                /\ t.line = line
                /\ \E i \in 1..Len(t.message) : t.message[i] = character
                /\ EndsWith(t.message, <<" ">> \o FormatUsize(line))
    /\ (pc = "done"
          /\ \A i \in 1..Len(source) : source[i] \notin C9_Recognized) =>
         /\ Len(tokens) = Len(source)
         /\ \A k \in 1..Len(tokens) : tokens[k].kind = "Invalid"

\* An `@` on the second line has been taken.
C9_Witness ==
    /\ Took({"@"})
    /\ line = 1
    /\ tokens # <<>>
    /\ tokens[Len(tokens)].kind = "Invalid"
    /\ tokens[Len(tokens)].line = 1

----------------------------------------------------------------------------
(* C10 *)

\* C10: every call of scan_tokens on one Scanner returns the same sequence,
\* the Scanner's text is the one it was built from, and every call starts
\* from line 0, a cursor at the start of the text and no token.
C10_Repeatable ==
    /\ \A i, j \in 1..Len(results) : results[i] = results[j]
    /\ source = built
    /\ (pc = "loop" /\ at = 0) =>
         /\ line = 0
         /\ pos = 0
         /\ tokens = <<>>

\* A second call has returned, of a scan that met a "\n" and pushed a token.
C10_Witness ==
    /\ pc = "done"
    /\ Len(results) = 2
    /\ results[2] # <<>>
    /\ line > 0

----------------------------------------------------------------------------
(* C11 *)

\* The iteration that took `character` began a comment.
BeganComment ==
    character = "/" /\ at < Len(source) /\ source[at + 1] = "/"

\* C11: every character that is neither whitespace nor part of a comment is
\* covered by a token: an iteration that takes a character other than space,
\* "\r", "\t" and "\n" and does not begin a comment pushes a token, which
\* covers what the iteration consumed.  (A scan that aborts is the matter of
\* C1: this is about the scans that go on.)
C11_EveryCharacterAccounted ==
    (at > 0 /\ pc # "panicked"
        /\ character \notin {" ", "\r", "\t", "\n"}
        /\ ~BeganComment) =>
        TokensAt(at) # {}

----------------------------------------------------------------------------
(* C12 *)

\* C12: when the maximal run of decimal digits begun by the digit taken is
\* followed by '.', the iteration pushes no token and leaves the cursor
\* before the '.', which the next iteration takes: `4.` returns the Dot of
\* its second character alone.
C12_RunBeforeDotDropped ==
    /\ (Took(AsciiDigits) /\ DigitRunEnd(source, at) < Len(source)
          /\ source[DigitRunEnd(source, at) + 1] = ".") =>
         /\ pc # "panicked"
         /\ pos = DigitRunEnd(source, at)
         /\ PushedNone
    /\ (source = <<"4", ".">> /\ pc = "done") =>
         /\ tokens = <<Token("Dot", 0)>>
         /\ starts = <<2>>

\* `44.` has been scanned up to the '.', with no token so far.
C12_Witness ==
    /\ source = <<"4", "4", ".">>
    /\ Took({"4"})
    /\ at = 1
    /\ pos = 2
    /\ pc = "loop"
    /\ tokens = <<>>

----------------------------------------------------------------------------
(* C13 *)

IsPrefix(a, b) == Len(a) <= Len(b) /\ SubSeq(b, 1, Len(a)) = a

\* C13: during a scan every step leaves the tokens it found as a prefix of
\* the tokens it leaves, the sequence returned is the one accumulated, and
\* the tokens stand in the order of their first characters in the text.
C13_AppendOnlyInOrder ==
    /\ [](\A j, k \in 1..Len(starts) : j < k => starts[j] < starts[k])
    /\ [][pc = "loop" => IsPrefix(tokens, tokens')]_vars
    /\ [][(pc = "loop" /\ pc' = "done") =>
            results'[Len(results')] = tokens]_vars

\* A scan has returned three tokens.
C13_Witness ==
    /\ pc = "done"
    /\ Len(tokens) = 3
    /\ results[Len(results)] = tokens
    /\ starts[1] < starts[2]
    /\ starts[2] < starts[3]

----------------------------------------------------------------------------
(* C14 *)

\* One step of a scan in progress: an iteration of the loop, or its exit.
ScanStep ==
    \/ SingleChar \/ SlashOrComment \/ Equality \/ StringLiteral
    \/ NumericLiteral \/ Whitespace \/ Newline \/ Unexpected
    \/ Return

\* C14: the scan terminates by returning: every iteration takes the
\* character after the cursor and leaves the cursor at it or beyond, within
\* the text; a scan in progress can always take a further step until it has
\* returned; and it returns exactly with the cursor at the end of the text,
\* handing back the accumulated tokens.
C14_ScanTerminates ==
    /\ at > 0 => (at <= pos /\ pos <= Len(source))
    /\ pc = "done" =>
         (pos = Len(source) /\ results[Len(results)] = tokens)
    /\ pc \notin {"ready", "done"} => ENABLED ScanStep

----------------------------------------------------------------------------
(* C15 *)

\* The kinds of Token that C15 says are never returned.
C15_AbsentKinds ==
    {"Eof", "Identifier", "And", "Class", "Else", "False", "Fun", "For",
     "If", "Nil", "Or", "Print", "Return", "Super", "This", "True", "Var",
     "While"}

Letters ==
    {"a", "b", "c", "d", "e", "f", "g", "h", "i", "j", "k", "l", "m", "n",
     "o", "p", "q", "r", "s", "t", "u", "v", "w", "x", "y", "z",
     "A", "B", "C", "D", "E", "F", "G", "H", "I", "J", "K", "L", "M", "N",
     "O", "P", "Q", "R", "S", "T", "U", "V", "W", "X", "Y", "Z"}

\* C15: no sequence accumulated or returned holds an Eof, an Identifier or a
\* keyword token, the empty text returns the empty sequence, and a letter
\* taken by the loop yields exactly one Invalid token.
C15_NoEofNoIdentifier ==
    /\ \A k \in 1..Len(tokens) : tokens[k].kind \notin C15_AbsentKinds
    /\ \A i \in 1..Len(results) : \A k \in 1..Len(results[i]) :
         results[i][k].kind \notin C15_AbsentKinds
    /\ (source = <<>> /\ pc = "done") => results[Len(results)] = <<>>
    /\ Took(Letters) =>
         /\ pos = at
         /\ Cardinality(TokensAt(at)) = 1
         /\ starts[Len(tokens)] = at
         /\ tokens[Len(tokens)].kind = "Invalid"

\* `aa` has been scanned and returned as two Invalid tokens.
C15_Witness ==
    /\ source = <<"a", "a">>
    /\ pc = "done"
    /\ Kinds(results[Len(results)]) = <<"Invalid", "Invalid">>

----------------------------------------------------------------------------
(* C16 *)

\* The iteration that took a '"' consumed a closing quote.
Closed == pos > at /\ source[pos] = "\""

\* C16: the characters the string arm consumes after the opening quote start
\* no token of their own, and the literal ends at a '"' or at the end of the
\* text and nowhere else; the characters the comment arm consumes start no
\* token, and the comment ends before a "\n" or at the end of the text and
\* nowhere else.  `"//4` returns the one String //4, `"=@"` the one String
\* =@, and `//"(` returns nothing.
C16_ModesExclusive ==
    /\ Took({"\""}) =>
         /\ \A j \in (at + 1)..pos : TokensAt(j) = {}
         /\ pos < Len(source) => Closed
         /\ \A j \in (at + 1)..(IF Closed THEN pos - 1 ELSE pos) :
              source[j] # "\""
         /\ tokens[Len(tokens)].kind = "String"
         /\ Len(tokens[Len(tokens)].literal)
              = (IF Closed THEN pos - 1 ELSE pos) - at
    /\ (Took({"/"}) /\ BeganComment) =>
         /\ \A j \in at..pos : TokensAt(j) = {}
         /\ pos >= at + 1
         /\ \A j \in (at + 2)..pos : source[j] # "\n"
         /\ pos < Len(source) => source[pos + 1] = "\n"
    /\ (source = <<"\"", "/", "/", "4">> /\ pc = "done") =>
         tokens = <<StringToken(<<"/", "/", "4">>, 0)>>
    /\ (source = <<"\"", "=", "@", "\"">> /\ pc = "done") =>
         tokens = <<StringToken(<<"=", "@">>, 0)>>
    /\ (source = <<"/", "/", "\"", "(">> /\ pc = "done") =>
         tokens = <<>>

\* A string literal holding a "\n" and a '/' has been closed by its quote.
C16_Witness ==
    /\ source = <<"\"", "\n", "/", "\"">>
    /\ Took({"\""})
    /\ at = 1
    /\ pos = 4
    /\ tokens = <<StringToken(<<"\n", "/">>, 0)>>

----------------------------------------------------------------------------
(* C17 *)

\* C17: the lines of the tokens never decrease along the sequence, each is
\* at least 0 and at most the number of "\n" in the text, a scan starts on
\* line 0, and a step of a scan leaves `line` as it is or adds 1 to it.
C17_LinesMonotone ==
    /\ [](\A j, k \in 1..Len(tokens) :
            j < k => tokens[j].line <= tokens[k].line)
    /\ [](\A k \in 1..Len(tokens) :
            /\ 0 <= tokens[k].line
            /\ tokens[k].line <= NewlinesBefore(source, Len(source)))
    /\ []((pc = "loop" /\ at = 0) => line = 0)
    /\ [][pc = "loop" => (line' = line \/ line' = line + 1)]_vars

\* Tokens of lines 0 and 1 have been returned.
C17_Witness ==
    /\ pc = "done"
    /\ Len(tokens) = 2
    /\ tokens[1].line = 0
    /\ tokens[2].line = 1
    /\ line = 2

----------------------------------------------------------------------------
(* C18 *)

\* s is made of space, "\r", "\t", "\n" and comments: whatever else it holds
\* follows, on its line, a `//` that only blanks precede.
OnlyBlanksAndComments(s) ==
    \A i \in 1..Len(s) :
        \/ s[i] \in {" ", "\r", "\t", "\n"}
        \/ \E j \in 1..i :
             /\ j < Len(s)
             /\ s[j] = "/"
             /\ s[j + 1] = "/"
             /\ \A m \in j..i : s[m] # "\n"
             /\ \A m \in 1..(j - 1) :
                  (\A n \in m..(j - 1) : s[n] # "\n") =>
                      s[m] \in {" ", "\r", "\t"}

\* C18: no iteration pushes more than one token, so there are never more
\* tokens than characters consumed, nor more returned than the text has; a
\* text of whitespace and comments only returns the empty sequence.
C18_AtMostOneTokenPerIteration ==
    /\ \A i \in 1..Len(source) : Cardinality(TokensAt(i)) <= 1
    /\ Len(tokens) <= pos
    /\ \A i \in 1..Len(results) : Len(results[i]) <= Len(source)
    /\ (pc = "done" /\ OnlyBlanksAndComments(source)) =>
         results[Len(results)] = <<>>

\* A blank, a newline and a comment have been scanned; nothing is returned.
C18_Witness ==
    /\ source = <<" ", "\n", "/", "/">>
    /\ OnlyBlanksAndComments(source)
    /\ pc = "done"
    /\ results[Len(results)] = <<>>

====
